---- MODULE Spec2Model ----
(***************************************************************************)
(* x_tracker: two programs that poll accounts for new posts and relay them *)
(* to a chat channel, each keeping a durable watermark.                    *)
(*                                                                         *)
(*   variant A  src/src/x_tracker/tracker.py   ActivityTracker: a list of  *)
(*              accounts, the API's since_id cursor, tracker_state.json.   *)
(*   variant B  src/x_web_tracker/tracker.py   main: one account, a scan   *)
(*              of the scraped page up to last_id.txt's id.                *)
(*                                                                         *)
(* An item is modelled by its id alone; ids are integers that grow with    *)
(* the time of posting, so "older in fetch order" is "smaller".            *)
(***************************************************************************)
EXTENDS Integers, Sequences, FiniteSets

\* ------------------------------------------------------------------ bounds

\* Posts an account makes over one behaviour of variant A: ids 1..MaxIdA.
MaxIdA == 2

\* Posts the account makes over one behaviour of variant B: ids 1..MaxIdB.
MaxIdB == 3

\* Deletions of posts the environment makes over one behaviour of variant B.
MaxDeletes == 1

\* Deletions of posts the environment makes over one behaviour of variant A.
MaxDeletesA == 0

\* ------------------------------------------------------- program constants

\* Python's None: an absent watermark (Optional[str]).
None == 0

\* read_last_id's view of a state file that does not exist.
Missing == -1

\* The content of a file that was opened for writing and holds nothing yet.
EmptyText == -2

\* fetch_latest_tweets(..., limit: int = 5)
limit == 5

\* extract_tweets(..., max_tweets: int = 10)
max_tweets == 10

\* TRACKED_ACCOUNTS, as TrackerConfig.from_env splits it; X_USERNAME.
Accounts == {"x", "y"}

\* The configured lists: two accounts, and one account entered twice.
AccountLists == {<<"x", "y">>, <<"x", "x">>}

X_USERNAME == "x"

MaxId == IF MaxIdA >= MaxIdB THEN MaxIdA ELSE MaxIdB

Ids == 1..MaxId

VARIABLES
    variant,        \* which program is deployed: "A" or "B"
    posted,         \* environment: posted[u] ids were handed out for account u
    deleted,        \* environment: the ids of u's posts that were deleted
    deletes,        \* environment: deletions made so far
    accounts,       \* A: config.accounts
    once,           \* A: args.once
    pcA,            \* A: where the process is
    exitA,          \* A: the error that is ending the process, or "none"
    state,          \* A: self._state
    state_file,     \* A: tracker_state.json: [status, data]
    idx,            \* A: position of check_once's for loop in accounts
    since_id,       \* A: since_id of the current account
    queue,          \* A: what _notify's loop has left; B: what main's loop has left
    pcB,            \* B: where main is
    last_seen_id,   \* B: main's last_seen_id
    last_id_file,   \* B: last_id.txt
    tweets,         \* the page fetched for the current account
    calls,          \* history: ids passed to the notification adapter for the
                    \*          current account in the current cycle, in order
    passed,         \* history: passed[u] = ids ever passed to the adapter
    delivered,      \* history: delivered[u] = ids the adapter delivered
    dup,            \* history: an id was passed to the adapter a second time
    cycleOK,        \* history (A): accounts of this check_once whose new items
                    \*              were all sent
    prevB,          \* history (B): page and stored watermark of the last run
                    \*              that completed on a non-empty page
    saved,          \* history (A): the snapshot the complete state file was
                    \*              written from
    visited,        \* history (A): the entries this check_once has turned to
    cycleFetched    \* history (A): cycleFetched[u] = the pages this check_once
                    \*              fetched for u, one after the other

vars == <<variant, posted, deleted, deletes, accounts, once, pcA, exitA, state,
          state_file, idx, since_id, queue, pcB, last_seen_id, last_id_file,
          tweets, calls, passed, delivered, dup, cycleOK, prevB, saved,
          visited, cycleFetched>>

envVars == <<posted, deleted, deletes>>
aVars == <<accounts, once, pcA, exitA, state, state_file, idx, since_id, cycleOK,
           saved, visited, cycleFetched>>
bVars == <<pcB, last_seen_id, last_id_file, prevB>>
histVars == <<calls, passed, delivered, dup>>

\* ----------------------------------------------------------------- helpers

Max(S) == CHOOSE m \in S : \A n \in S : n <= m

Min2(a, b) == IF a <= b THEN a ELSE b

RECURSIVE NewestFirst(_)
\* The ids of S, largest (newest) first.
NewestFirst(S) ==
    IF S = {} THEN <<>> ELSE <<Max(S)>> \o NewestFirst(S \ {Max(S)})

Take(s, n) == SubSeq(s, 1, Min2(n, Len(s)))

Range(s) == {s[i] : i \in 1..Len(s)}

NoState == [a \in Accounts |-> None]

\* The listings that carry one item of s a second time, further down.
Repeats(s) ==
    {SubSeq(s, 1, j) \o <<s[k]>> \o SubSeq(s, j + 1, Len(s)) :
        <<k, j>> \in {p \in (1..Len(s)) \X (1..Len(s)) : p[1] <= p[2]}}

NoPrev == [tweets |-> <<>>, stored |-> None]

\* No complete state file: no snapshot it was written from.
NoSaved == <<>>

NoneFetched == [a \in Accounts |-> <<>>]

\* The posts of account u that exist now.
Live(u) == {i \in 1..posted[u] : i \notin deleted[u]}

\* ------------------------------------------------ the notification adapter

\* One call of the notification adapter for item id of account u, delivered
\* (ok) or not: what the history variables record of it.
PassToAdapter(u, id, ok) ==
    /\ calls' = Append(calls, id)
    /\ passed' = [passed EXCEPT ![u] = @ \cup {id}]
    /\ delivered' = IF ok THEN [delivered EXCEPT ![u] = @ \cup {id}] ELSE delivered
    /\ dup' = (dup \/ id \in passed[u])

\* -------------------------------------------------------------- environment

\* The account posts: the next id exists.
Post(u) ==
    /\ variant = "B" => u = X_USERNAME
    /\ variant = "A" => u \in Range(accounts)
    /\ posted[u] < (IF variant = "A" THEN MaxIdA ELSE MaxIdB)
    /\ posted' = [posted EXCEPT ![u] = @ + 1]
    /\ UNCHANGED <<variant, deleted, deletes, aVars, bVars, histVars, queue, tweets>>

\* The account deletes one of its posts.
Delete(u, i) ==
    /\ variant = "B" => u = X_USERNAME
    /\ variant = "A" => u \in Range(accounts)
    /\ deletes < (IF variant = "A" THEN MaxDeletesA ELSE MaxDeletes)
    /\ i \in Live(u)
    /\ deleted' = [deleted EXCEPT ![u] = @ \cup {i}]
    /\ deletes' = deletes + 1
    /\ UNCHANGED <<variant, posted, aVars, bVars, histVars, queue, tweets>>

\* ---------------------------------------------------------- shared helpers

\* reversed, were the reversal left out: the items stay newest-first.
reversed_omitted(s) == s

RECURSIVE reversed(_)
\* reversed(tweets) / new_tweets.reverse()
reversed(s) ==
    IF s = <<>> THEN <<>> ELSE Append(reversed(Tail(s)), Head(s))

\* ------------------------------------------------- variant B: x_web_tracker

\* read_last_id: None when the file is missing or empty, else its content.
read_last_id ==
    IF last_id_file = Missing THEN None
    ELSE IF last_id_file = EmptyText THEN None ELSE last_id_file

RECURSIVE extract_from(_, _, _)
\* extract_tweets' loop over tweet_elements: skip an id already seen, stop at
\* max_tweets.
extract_from(elements, seen_ids, out) ==
    IF elements = <<>> \/ Len(out) >= max_tweets THEN out
    ELSE IF Head(elements) \in seen_ids
         THEN extract_from(Tail(elements), seen_ids, out)
         ELSE extract_from(Tail(elements), seen_ids \cup {Head(elements)},
                           Append(out, Head(elements)))

\* extract_tweets(username), when the page loads.
extract_tweets(elements) == extract_from(elements, {}, <<>>)

\* The tweet elements of the profile page: the live posts, newest first.
tweet_elements(u) == NewestFirst(Live(u))

RECURSIVE new_tweets_inclusive(_, _)
\* The scan, were the break placed after the append: the boundary item counts
\* as new.
new_tweets_inclusive(tw, last) ==
    IF tw = <<>> THEN <<>>
    ELSE IF Head(tw) = last THEN <<Head(tw)>>
    ELSE <<Head(tw)>> \o new_tweets_inclusive(Tail(tw), last)

\* The scan, were its break a continue: only the boundary item is left out.
new_tweets_no_break(tw, last) ==
    SelectSeq(tw, LAMBDA id : id # last)

RECURSIVE new_tweets(_, _)
\* main's scan: the items before the first one whose id is last_seen_id.
new_tweets(tw, last) ==
    IF tw = <<>> THEN <<>>
    ELSE IF Head(tw) = last THEN <<>>
    ELSE <<Head(tw)>> \o new_tweets(Tail(tw), last)

\* main, from its start to its first write or send (or its early return),
\* when the page loads.
MainOn(elements) ==
    /\ variant = "B"
    /\ pcB = "idle"
    /\ LET ls == read_last_id
           tw == extract_tweets(elements)
           nt == new_tweets(tw, ls)
       IN  /\ last_seen_id' = ls
           /\ tweets' = tw
           /\ calls' = <<>>
           /\ IF tw = <<>>
              THEN pcB' = "done" /\ queue' = <<>>
              ELSE IF ls = None
              THEN pcB' = "write" /\ queue' = <<>>
              ELSE IF nt = <<>>
              THEN pcB' = "write" /\ queue' = <<>>
              ELSE pcB' = "send" /\ queue' = reversed(nt)
    /\ UNCHANGED <<variant, envVars, aVars, last_id_file, prevB, passed, delivered, dup>>

Main == MainOn(tweet_elements(X_USERNAME))

\* main, when the page shows one of its tweet elements a second time.
MainRepeated ==
    /\ variant = "B"
    /\ pcB = "idle"
    /\ \E elements \in Repeats(tweet_elements(X_USERNAME)) : MainOn(elements)

\* main when extract_tweets swallows a timeout or an exception and returns [].
MainFetchFailed ==
    /\ variant = "B"
    /\ pcB = "idle"
    /\ last_seen_id' = read_last_id
    /\ tweets' = <<>>
    /\ calls' = <<>>
    /\ queue' = <<>>
    /\ pcB' = "done"
    /\ UNCHANGED <<variant, envVars, aVars, last_id_file, prevB, passed, delivered, dup>>

\* send_to_telegram for the next item of main's loop: a failure is printed
\* and swallowed, the loop goes on.
SendToTelegram(ok) ==
    /\ variant = "B"
    /\ pcB = "send"
    /\ queue # <<>>
    /\ PassToAdapter(X_USERNAME, Head(queue), ok)
    /\ queue' = Tail(queue)
    /\ pcB' = IF Tail(queue) = <<>> THEN "write" ELSE "send"
    /\ UNCHANGED <<variant, envVars, aVars, last_seen_id, last_id_file, prevB, tweets>>

\* write_last_id(newest_id): write_text opens last_id.txt, truncating it ...
WriteLastIdOpen ==
    /\ variant = "B"
    /\ pcB = "write"
    /\ last_id_file' = EmptyText
    /\ pcB' = "writing"
    /\ UNCHANGED <<variant, envVars, aVars, last_seen_id, prevB, tweets, queue, histVars>>

\* ... and writes newest_id = tweets[0]["id"].
WriteLastIdData ==
    /\ variant = "B"
    /\ pcB = "writing"
    /\ last_id_file' = tweets[1]
    /\ pcB' = "done"
    /\ UNCHANGED <<variant, envVars, aVars, last_seen_id, prevB, tweets, queue, histVars>>

\* main returns; the process ends and its locals are gone.
MainReturn ==
    /\ variant = "B"
    /\ pcB = "done"
    /\ pcB' = "idle"
    /\ prevB' = IF tweets # <<>>
                THEN [tweets |-> tweets, stored |-> last_id_file] ELSE prevB
    /\ last_seen_id' = None
    /\ tweets' = <<>>
    /\ queue' = <<>>
    /\ calls' = <<>>
    /\ UNCHANGED <<variant, envVars, aVars, last_id_file, passed, delivered, dup>>

\* The process is killed in the middle of main.
CrashB ==
    /\ variant = "B"
    /\ pcB \in {"send", "write", "writing"}
    /\ pcB' = "idle"
    /\ last_seen_id' = None
    /\ tweets' = <<>>
    /\ queue' = <<>>
    /\ calls' = <<>>
    /\ UNCHANGED <<variant, envVars, aVars, last_id_file, prevB, passed, delivered, dup>>

\* ----------------------------------------------------- variant A: x_tracker

\* JSON's null, as json.dump writes None and json.load reads it back.
JsonNull == -3

\* json.dump(self._state, handle): the JSON object written for a snapshot.
json_dump(st) == [a \in DOMAIN st |-> IF st[a] = None THEN JsonNull ELSE st[a]]

\* The lookup, were null read back as a value of its own instead of None.
stored_get_raw(stored, a) ==
    IF a \notin DOMAIN stored THEN None ELSE stored[a]

\* stored.get(account) on the loaded JSON object.
stored_get(stored, a) ==
    IF a \notin DOMAIN stored THEN None
    ELSE IF stored[a] = JsonNull THEN None ELSE stored[a]

\* The load, were the entries of the file kept beside the configured accounts.
load_state_keep_stored(file, accts) ==
    IF file.status = "ok"
    THEN [a \in Range(accts) \cup DOMAIN file.data |-> stored_get(file.data, a)]
    ELSE [a \in Range(accts) |-> None]

\* _load_state: every configured account, with the stored id or None.
load_state(file, accts) ==
    IF file.status = "ok"
    THEN [a \in Range(accts) |-> stored_get(file.data, a)]
    ELSE [a \in Range(accts) |-> None]

\* The fetch, were since_id left out of the request.
fetch_latest_tweets_no_since(u, since) == Take(NewestFirst(Live(u)), limit)

\* XClient.fetch_latest_tweets(user_id, since_id): the API answers with the
\* newest `limit` posts, those after since_id when one is sent.
fetch_latest_tweets(u, since) ==
    Take(NewestFirst(IF since # None THEN {i \in Live(u) : i > since} ELSE Live(u)),
         limit)

\* The update, were it to take the last (oldest) item of the page.
update_state_oldest(st, u, tw) ==
    IF tw # <<>> THEN [st EXCEPT ![u] = tw[Len(tw)]] ELSE st

\* The update, were it made without the `if tweets:` test: an empty page
\* leaves the account with no watermark.
update_state_unguarded(st, u, tw) ==
    [st EXCEPT ![u] = IF tw # <<>> THEN tw[1] ELSE None]

\* check_once's update of self._state for one account's page.
update_state(st, u, tw) ==
    IF tw # <<>> THEN [st EXCEPT ![u] = tw[1]] ELSE st

\* What a process that ends leaves of its memory: nothing.
Forget ==
    /\ state' = [a \in Range(accounts) |-> None]
    /\ once' = FALSE
    /\ exitA' = "none"
    /\ idx' = 1
    /\ since_id' = None
    /\ tweets' = <<>>
    /\ queue' = <<>>
    /\ calls' = <<>>
    /\ cycleOK' = {}
    /\ visited' = <<>>
    /\ cycleFetched' = NoneFetched

\* cli.main: ActivityTracker(config) loads the state, then check_once (--once)
\* or run.
StartA(o) ==
    /\ variant = "A"
    /\ pcA = "down"
    /\ state_file.status # "partial"
    /\ once' = o
    /\ state' = load_state(state_file, accounts)
    /\ idx' = 1
    /\ pcA' = "loop"
    /\ exitA' = "none"
    /\ cycleOK' = {}
    /\ visited' = <<>>
    /\ cycleFetched' = NoneFetched
    /\ UNCHANGED <<variant, envVars, accounts, state_file, since_id, queue, tweets,
                   bVars, histVars, saved>>

\* cli.main when json.load cannot parse the state file: the constructor raises.
StartCorrupt ==
    /\ variant = "A"
    /\ pcA = "down"
    /\ state_file.status = "partial"
    /\ exitA # "corrupt"
    /\ exitA' = "corrupt"
    /\ UNCHANGED <<variant, envVars, accounts, once, pcA, state, state_file, idx,
                   since_id, cycleOK, queue, tweets, bVars, histVars, saved,
                   visited, cycleFetched>>

\* check_once's loop body up to _notify, for accounts[idx], when get_user_id
\* and fetch_latest_tweets answer.
CheckAccountOn(tw) ==
    /\ variant = "A"
    /\ pcA = "loop"
    /\ LET username == accounts[idx]
       IN  /\ since_id' = state[username]
           /\ tweets' = tw
           /\ state' = update_state(state, username, tw)
           /\ queue' = reversed(tw)
           /\ pcA' = IF tw # <<>> THEN "notify" ELSE "next"
           /\ visited' = Append(visited, username)
           /\ cycleFetched' = [cycleFetched EXCEPT ![username] = @ \o tw]
    /\ calls' = <<>>
    /\ UNCHANGED <<variant, envVars, accounts, once, exitA, state_file, idx, cycleOK,
                   bVars, passed, delivered, dup, saved>>

CheckAccount ==
    /\ variant = "A"
    /\ pcA = "loop"
    /\ CheckAccountOn(fetch_latest_tweets(accounts[idx], state[accounts[idx]]))

\* The same step, when the API's answer carries one of its items twice.
CheckAccountRepeated ==
    /\ variant = "A"
    /\ pcA = "loop"
    /\ \E tw \in Repeats(fetch_latest_tweets(accounts[idx], state[accounts[idx]])) :
          CheckAccountOn(tw)

\* get_user_id or fetch_latest_tweets raises RuntimeError for accounts[idx]:
\* nothing in check_once or run catches it.
FetchRaises(kind) ==
    /\ variant = "A"
    /\ pcA = "loop"
    /\ since_id' = IF kind = "fetch" THEN state[accounts[idx]] ELSE None
    /\ tweets' = <<>>
    /\ queue' = <<>>
    /\ calls' = <<>>
    /\ pcA' = "raised"
    /\ exitA' = kind
    /\ visited' = Append(visited, accounts[idx])
    /\ UNCHANGED <<variant, envVars, accounts, once, state, state_file, idx, cycleOK,
                   bVars, passed, delivered, dup, saved, cycleFetched>>

\* _notify's loop: send_message for the next item succeeds.
SendMessage ==
    /\ variant = "A"
    /\ pcA = "notify"
    /\ queue # <<>>
    /\ PassToAdapter(accounts[idx], Head(queue), TRUE)
    /\ queue' = Tail(queue)
    /\ pcA' = IF Tail(queue) = <<>> THEN "next" ELSE "notify"
    /\ cycleOK' = IF Tail(queue) = <<>> THEN cycleOK \cup {accounts[idx]} ELSE cycleOK
    /\ UNCHANGED <<variant, envVars, accounts, once, exitA, state, state_file, idx,
                   since_id, tweets, bVars, saved, visited, cycleFetched>>

\* The failed send, were the failure caught and the loop continued.
SendFailureCaught ==
    /\ variant = "A"
    /\ pcA = "notify"
    /\ queue # <<>>
    /\ PassToAdapter(accounts[idx], Head(queue), FALSE)
    /\ queue' = Tail(queue)
    /\ pcA' = IF Tail(queue) = <<>> THEN "next" ELSE "notify"
    /\ cycleOK' = IF Tail(queue) = <<>> THEN cycleOK \cup {accounts[idx]} ELSE cycleOK
    /\ UNCHANGED <<variant, envVars, accounts, once, exitA, state, state_file, idx,
                   since_id, tweets, bVars, saved, visited, cycleFetched>>

\* _notify's loop: send_message raises RuntimeError; nothing catches it.
SendRaises ==
    /\ variant = "A"
    /\ pcA = "notify"
    /\ queue # <<>>
    /\ PassToAdapter(accounts[idx], Head(queue), FALSE)
    /\ pcA' = "raised"
    /\ exitA' = "send"
    /\ UNCHANGED <<variant, envVars, accounts, once, state, state_file, idx, since_id,
                   cycleOK, queue, tweets, bVars, saved, visited, cycleFetched>>

\* The for loop, were it to take the same entry again.
NextAccountSame ==
    /\ variant = "A"
    /\ pcA = "next"
    /\ pcA' = "loop"
    /\ UNCHANGED <<variant, envVars, accounts, once, exitA, state, state_file, idx,
                   since_id, cycleOK, queue, tweets, bVars, histVars, saved, visited,
                   cycleFetched>>

\* The for loop moves to the next account, or to _persist_state after the last.
NextAccount ==
    /\ variant = "A"
    /\ pcA = "next"
    /\ idx' = idx + 1
    /\ pcA' = IF idx + 1 > Len(accounts) THEN "persist" ELSE "loop"
    /\ UNCHANGED <<variant, envVars, accounts, once, exitA, state, state_file, since_id,
                   cycleOK, queue, tweets, bVars, histVars, saved, visited,
                   cycleFetched>>

\* _persist_state: open("w") truncates the file (its data field means nothing
\* until the dump) ...
PersistOpen ==
    /\ variant = "A"
    /\ pcA = "persist"
    /\ state_file' = [status |-> "partial", data |-> json_dump(NoState)]
    /\ pcA' = "dump"
    /\ saved' = NoSaved
    /\ UNCHANGED <<variant, envVars, accounts, once, exitA, state, idx, since_id,
                   cycleOK, queue, tweets, bVars, histVars, visited, cycleFetched>>

\* ... and json.dump writes the snapshot. check_once returns: --once exits,
\* run sleeps.
PersistDump ==
    /\ variant = "A"
    /\ pcA = "dump"
    /\ state_file' = [status |-> "ok", data |-> json_dump(state)]
    /\ saved' = state
    /\ IF once
       THEN pcA' = "down" /\ Forget
       ELSE /\ pcA' = "sleep"
            /\ cycleFetched' = NoneFetched
            /\ UNCHANGED <<once, exitA, state, idx, since_id, cycleOK, queue,
                           tweets, calls, visited>>
    /\ UNCHANGED <<variant, envVars, accounts, bVars, passed, delivered, dup>>

\* run: time.sleep returns and the next check_once starts.
Sleep ==
    /\ variant = "A"
    /\ pcA = "sleep"
    /\ pcA' = "loop"
    /\ idx' = 1
    /\ cycleOK' = {}
    /\ since_id' = None
    /\ tweets' = <<>>
    /\ calls' = <<>>
    /\ visited' = <<>>
    /\ UNCHANGED <<variant, envVars, accounts, once, exitA, state, state_file, queue,
                   bVars, passed, delivered, dup, saved, cycleFetched>>

\* The exception leaves check_once, run and cli.main: the process ends.
ProcessExit ==
    /\ variant = "A"
    /\ pcA = "raised"
    /\ pcA' = "down"
    /\ Forget
    /\ UNCHANGED <<variant, envVars, accounts, state_file, bVars,
                   passed, delivered, dup, saved>>

\* The process is killed.
CrashA ==
    /\ variant = "A"
    /\ pcA \in {"loop", "notify", "next", "persist", "dump", "sleep"}
    /\ pcA' = "down"
    /\ Forget
    /\ UNCHANGED <<variant, envVars, accounts, state_file, bVars,
                   passed, delivered, dup, saved>>

\* ------------------------------------------------------------ specification

\* The snapshot an earlier run configured with the list L saved after it
\* delivered the first post of L's last account.
LeftBy(L) == [a \in Range(L) |-> IF a = L[Len(L)] THEN 1 ELSE None]

\* The state file is missing, or (variant A) was left by a run configured with
\* another list of X_USERNAMES.
Init ==
    /\ variant \in {"A", "B"}
    /\ accounts \in (IF variant = "A" THEN AccountLists ELSE {<<X_USERNAME>>})
    /\ saved \in {NoSaved} \cup
                 (IF variant = "A"
                  THEN {LeftBy(L) : L \in AccountLists \ {accounts}}
                  ELSE {})
    /\ state_file = IF saved = NoSaved
                    THEN [status |-> "missing", data |-> json_dump(NoState)]
                    ELSE [status |-> "ok", data |-> json_dump(saved)]
    /\ posted = [a \in Accounts |-> IF a \in DOMAIN saved THEN saved[a] ELSE 0]
    /\ passed = [a \in Accounts |-> {posted[a]} \ {0}]
    /\ delivered = passed
    /\ deleted = [a \in Accounts |-> {}]
    /\ deletes = 0
    /\ once = FALSE
    /\ pcA = "down"
    /\ exitA = "none"
    /\ state = [a \in Range(accounts) |-> None]
    /\ idx = 1
    /\ since_id = None
    /\ queue = <<>>
    /\ pcB = "idle"
    /\ last_seen_id = None
    /\ last_id_file = Missing
    /\ tweets = <<>>
    /\ calls = <<>>
    /\ dup = FALSE
    /\ cycleOK = {}
    /\ prevB = NoPrev
    /\ visited = <<>>
    /\ cycleFetched = NoneFetched

Next ==
    \/ \E u \in Accounts : Post(u)
    \/ \E u \in Accounts : \E i \in Ids : Delete(u, i)
    \/ Main
    \/ MainFetchFailed
    \/ \E ok \in BOOLEAN : SendToTelegram(ok)
    \/ WriteLastIdOpen
    \/ WriteLastIdData
    \/ MainReturn
    \/ CrashB
    \/ \E o \in BOOLEAN : StartA(o)
    \/ StartCorrupt
    \/ CheckAccount
    \/ \E kind \in {"resolve", "fetch"} : FetchRaises(kind)
    \/ SendMessage
    \/ SendRaises
    \/ NextAccount
    \/ PersistOpen
    \/ PersistDump
    \/ Sleep
    \/ ProcessExit
    \/ CrashA

Spec == Init /\ [][Next]_vars

\* The program with a source whose pages may carry an item twice.
NextRepeated ==
    \/ Next
    \/ MainRepeated
    \/ CheckAccountRepeated

SpecRepeated == Init /\ [][NextRepeated]_vars

\* ------------------------------------------------------------------ claims

\* cs is the oldest-first listing of the k newest items of page tw, or a
\* prefix of that listing: cs[i] is the i-th oldest of them.
OldestFirstPrefix(cs, tw, k) ==
    /\ Len(cs) <= k
    /\ \A i \in 1..Len(cs) : cs[i] = tw[k + 1 - i]

\* The position of the watermark in page tw, Len(tw) + 1 when it is not there.
BoundaryIndex(tw, last) ==
    IF \E i \in 1..Len(tw) : tw[i] = last
    THEN CHOOSE i \in 1..Len(tw) :
            tw[i] = last /\ \A j \in 1..(i - 1) : tw[j] # last
    ELSE Len(tw) + 1

\* The stored watermark of variant B as a later run reads it.
StoredB == read_last_id

\* C1 (as claimed): no item id of an account is passed to the notification
\* adapter more than once, over any interleaving of cycles, failures and
\* crash/restart, in variant A and in variant B.
C1_AtMostOnce == ~dup

\* C2 (as claimed): in variant B, when main has finished, the stored watermark
\* is at or past an item this run identified as new only if that item was
\* delivered.
C2_NoLostItem ==
    (variant = "B" /\ pcB = "done") =>
        \A i \in Range(calls) :
            (StoredB # None /\ StoredB >= i) => i \in delivered[X_USERNAME]

\* C3: the adapter calls made for an account in a cycle list the new items
\* oldest-first, each once: at every moment they are a prefix of that listing,
\* and they are the whole listing once the account's notifications are over
\* (variant A: _notify returned; variant B: main's loop ended).
C3_OrderPreserved ==
    /\ variant = "A" =>
          /\ OldestFirstPrefix(calls, tweets, Len(tweets))
          /\ pcA = "next" => Len(calls) = Len(tweets)
    /\ (variant = "B" /\ pcB # "idle" /\ last_seen_id # None) =>
          LET k == BoundaryIndex(tweets, last_seen_id) - 1
          IN  /\ OldestFirstPrefix(calls, tweets, k)
              /\ pcB \in {"write", "writing", "done"} => Len(calls) = k

\* C3's case: variant A has sent a two-item page, oldest first.
C3_Witness ==
    variant = "A" /\ pcA = "next" /\ Len(tweets) = 2 /\ calls = <<tweets[2], tweets[1]>>

\* C3's case in variant B: two new items were sent, oldest first.
C3_WitnessB ==
    variant = "B" /\ pcB = "done" /\ last_seen_id # None /\ Len(calls) = 2

\* C4 (as claimed): when a check_once ends because resolving or fetching
\* account X failed, every account Y whose fetch succeeded and whose new items
\* were sent in this cycle has its updated watermark in the state file.
C4_PartialFailureIsolation ==
    (variant = "A" /\ pcA = "raised" /\ exitA \in {"resolve", "fetch"}) =>
        \A y \in cycleOK :
            /\ state_file.status = "ok"
            /\ stored_get(state_file.data, y) = state[y]

\* C5 (as claimed): in continuous mode an error of a resolve, a fetch or a
\* send never ends the process.
C5_ContinuousNeverExits ==
    [][(variant = "A" /\ ~once /\ pcA = "raised") => pcA' # "down"]_vars

\* C6 (as claimed): a watermark that was not absent when a cycle read it is,
\* after the cycle's update, not absent and not the id of an older item.
C6_ForwardOnly ==
    /\ (variant = "B" /\ pcB = "done" /\ last_seen_id # None) =>
          (StoredB # None /\ StoredB >= last_seen_id)
    /\ (variant = "A" /\ pcA \in {"notify", "next"} /\ since_id # None) =>
          (state[accounts[idx]] # None /\ state[accounts[idx]] >= since_id)

\* C7: first run. With an absent watermark and a non-empty page, variant B ends
\* with the page's newest id stored and no notification; variant A sets the
\* in-memory watermark to the page's newest id and, when _notify has returned,
\* has sent the whole page oldest-first.
C7_FirstRun ==
    /\ (variant = "B" /\ pcB = "done" /\ last_seen_id = None /\ tweets # <<>>) =>
          (last_id_file = tweets[1] /\ calls = <<>>)
    /\ (variant = "A" /\ pcA \in {"notify", "next"} /\ since_id = None /\ tweets # <<>>) =>
          /\ state[accounts[idx]] = tweets[1]
          /\ OldestFirstPrefix(calls, tweets, Len(tweets))
          /\ pcA = "next" => Len(calls) = Len(tweets)

\* C7's case: variant A's first cycle for an account sent a two-item page.
C7_Witness ==
    /\ variant = "A" /\ pcA = "next" /\ since_id = None
    /\ Len(tweets) = 2 /\ Len(calls) = 2

\* C7's case in variant B: a first run seeded the watermark from a page of
\* two items or more.
C7_WitnessB ==
    variant = "B" /\ pcB = "done" /\ last_seen_id = None /\ Len(tweets) >= 2

\* C8: a run of variant B on the page of the last completed run, reading the
\* watermark that run stored, sends nothing and leaves the watermark as it is.
C8_IdempotentNoOp ==
    (/\ variant = "B" /\ pcB = "done" /\ tweets # <<>>
     /\ prevB.tweets = tweets /\ last_seen_id = prevB.stored) =>
        (calls = <<>> /\ last_id_file = last_seen_id)

\* C8's case: a second run on the same page of two items or more has finished.
C8_Witness ==
    /\ variant = "B" /\ pcB = "done" /\ Len(tweets) >= 2
    /\ prevB.tweets = tweets /\ last_seen_id = prevB.stored

\* C9: variant B with a stored watermark. If no item of the page has the
\* watermark's id, the whole page is sent oldest-first; if item i has it,
\* items i-1, ..., 1 are sent and no other. The watermark becomes the newest id.
C9_BoundaryScan ==
    (variant = "B" /\ pcB = "done" /\ last_seen_id # None /\ tweets # <<>>) =>
        /\ last_id_file = tweets[1]
        /\ (\A i \in 1..Len(tweets) : tweets[i] # last_seen_id) =>
              /\ Len(calls) = Len(tweets)
              /\ \A j \in 1..Len(calls) : calls[j] = tweets[Len(tweets) + 1 - j]
        /\ \A i \in 1..Len(tweets) :
              tweets[i] = last_seen_id =>
                 /\ Len(calls) = i - 1
                 /\ \A j \in 1..Len(calls) : calls[j] = tweets[i - j]

\* C9's case: the watermark is not in a page of two items, and both were sent.
C9_Witness ==
    /\ variant = "B" /\ pcB = "done" /\ last_seen_id # None
    /\ Len(tweets) = 2 /\ \A i \in 1..2 : tweets[i] # last_seen_id
    /\ Len(calls) = 2

\* C9's other case: the watermark is the third item of the page.
C9_WitnessFound ==
    /\ variant = "B" /\ pcB = "done" /\ Len(tweets) = 3
    /\ tweets[3] = last_seen_id /\ Len(calls) = 2

\* C10: the step in which an account's fetch fails or returns no items sends
\* nothing and changes neither the watermark in memory nor the durable state,
\* and nothing is sent for the account afterwards in that cycle.
C10_FetchFailureUntouched ==
    [][/\ (variant = "A" /\ pcA = "loop" /\ pcA' \in {"next", "raised"} /\ tweets' = <<>>) =>
            (state' = state /\ state_file' = state_file /\ passed' = passed /\ calls' = <<>>)
       /\ (variant = "A" /\ pcA = "next" /\ tweets = <<>>) =>
            (passed' = passed /\ state_file' = state_file)
       /\ (variant = "B" /\ pcB = "idle" /\ pcB' # "idle" /\ tweets' = <<>>) =>
            (pcB' = "done" /\ last_id_file' = last_id_file /\ passed' = passed /\ calls' = <<>>)
       /\ (variant = "B" /\ pcB = "done" /\ tweets = <<>>) =>
            (last_id_file' = last_id_file /\ passed' = passed)
      ]_vars

\* C10's case in variant A: an account that has a watermark got an empty page.
C10_Witness ==
    /\ variant = "A" /\ pcA = "next" /\ tweets = <<>>
    /\ state[accounts[idx]] # None

\* C10's other cases: a fetch of variant A raised for an account that has a
\* watermark; a run of variant B with a stored watermark got no page.
C10_WitnessRaised ==
    variant = "A" /\ pcA = "raised" /\ exitA = "fetch" /\ since_id # None

\* C10's case in variant B.
C10_WitnessB ==
    variant = "B" /\ pcB = "done" /\ tweets = <<>> /\ last_seen_id # None

\* C11 (as claimed): when check_once turns to a later account, every earlier
\* account whose new items were sent in this cycle already has its updated
\* watermark in the state file.
C11_CommitAfterEachAccount ==
    (variant = "A" /\ pcA = "loop" /\ idx > 1) =>
        \A y \in cycleOK :
            /\ state_file.status = "ok"
            /\ stored_get(state_file.data, y) = state[y]

\* C13 (as claimed): no reader, and no restart after a crash, finds a state
\* file that is neither its complete previous content nor its complete new
\* content (variant A: tracker_state.json; variant B: last_id.txt).
C13_AtomicSave ==
    /\ variant = "A" => state_file.status # "partial"
    /\ (variant = "B" /\ pcB = "writing") =>
          read_last_id \in {last_seen_id, tweets[1]}

\* C14 (as claimed): when a send has failed in check_once, the watermark the
\* instance holds for that account, which the next check_once will use, is the
\* one the failed cycle started from.
C14_RetryAfterNotifyFailure ==
    (variant = "A" /\ pcA = "raised" /\ exitA = "send") =>
        state[accounts[idx]] = since_id
\* C12: in variant A, a fresh tracker with the same account list that loads a
\* state file right after it was saved holds the mapping the file was written
\* from, None for None.
C12_RoundTrip ==
    (/\ variant = "A"
     /\ pcA = "loop"
     /\ idx = 1
     /\ state_file.status = "ok"
     /\ DOMAIN saved = Range(accounts)) => state = saved

C12_Witness ==
    /\ variant = "A"
    /\ once
    /\ pcA = "loop"
    /\ idx = 1
    /\ state_file.status = "ok"
    /\ accounts = <<"x", "y">>
    /\ saved = [a \in {"x", "y"} |-> IF a = "x" THEN 1 ELSE None]
    /\ state = saved

\* Steps check_once has left at most: entries still to take, and within the
\* entry at hand the sends still to make.
CycleRank ==
    (Len(accounts) + 1 - idx) * (limit + 3) +
        (CASE pcA = "loop" -> limit + 2
           [] pcA = "notify" -> Len(queue) + 1
           [] OTHER -> 0)

\* C17: in variant A one check_once takes the configured entries in configured
\* order, each once; it turns to an entry only after the entry before it has
\* its watermark updated in memory and each of its notifications sent; and
\* every step of the loop leaves fewer steps to take, so the call ends.
C17_SequentialCycle ==
    /\ [](variant = "A" =>
            /\ Len(visited) <= Len(accounts)
            /\ visited = SubSeq(accounts, 1, Len(visited))
            /\ pcA \in {"persist", "dump", "sleep"} => visited = accounts
            /\ pcA = "loop" => Len(visited) = idx - 1 /\ idx <= Len(accounts)
            /\ (pcA = "loop" /\ idx > 1) =>
                  /\ queue = <<>>
                  /\ calls = reversed(tweets)
                  /\ state = update_state(state, accounts[idx - 1], tweets))
    /\ [][(/\ variant = "A"
           /\ pcA \in {"loop", "notify", "next"}
           /\ pcA' \in {"loop", "notify", "next"}
           /\ <<pcA, idx, queue>>' # <<pcA, idx, queue>>) => CycleRank' < CycleRank]_vars

C17_Witness ==
    /\ variant = "A"
    /\ accounts = <<"x", "y">>
    /\ pcA = "loop"
    /\ idx = 2
    /\ Len(tweets) = 2
    /\ calls = reversed(tweets)
    /\ state["x"] = tweets[1]

C17_WitnessDone ==
    /\ variant = "A"
    /\ pcA = "sleep"
    /\ visited = accounts
    /\ \E a \in Range(accounts) : state[a] # None

\* C15: in variant A the state file changes only in _persist_state, which a
\* check_once reaches only after every entry was fetched and every fetched item
\* sent with success; so an id the complete file holds for an account is an id
\* that was sent with success, and so is every other id of its page.
C15_DurableNotAhead ==
    /\ [](variant = "A" =>
            /\ pcA \in {"persist", "dump"} =>
                  /\ visited = accounts
                  /\ exitA = "none"
                  /\ \A a \in Range(accounts) :
                        /\ Range(cycleFetched[a]) \subseteq delivered[a]
                        /\ cycleFetched[a] # <<>> => a \in cycleOK
                        /\ state[a] # None => state[a] \in delivered[a]
            /\ state_file.status = "ok" =>
                  \A a \in DOMAIN state_file.data :
                      stored_get(state_file.data, a) # None =>
                          stored_get(state_file.data, a) \in delivered[a])
    /\ [][state_file' # state_file => pcA \in {"persist", "dump"}]_vars

C15_Witness ==
    /\ variant = "A"
    /\ accounts = <<"x", "y">>
    /\ pcA = "sleep"
    /\ state_file.status = "ok"
    /\ state_file.data["x"] = 2
    /\ {1, 2} \subseteq delivered["x"]
    /\ state_file.data["y"] = JsonNull

\* The step of check_once that fetches for an entry whose handle an earlier
\* entry of the list already had.
LaterOccurrence ==
    /\ variant = "A"
    /\ pcA = "loop"
    /\ idx > 1
    /\ accounts[idx] \in Range(SubSeq(accounts, 1, idx - 1))
    /\ pcA' \in {"notify", "next"}

\* C18: in variant A, when a handle is configured twice, the later entry is
\* fetched with the watermark the earlier entry set; no id of its page was
\* fetched before in this check_once, so none is sent twice; the watermark
\* after it is the newest id fetched in the call (the one it had, if none was);
\* and when the earlier page is what a single entry would fetch now, the later
\* entry fetches nothing and changes nothing.
C18_DuplicateEntries ==
    [][LaterOccurrence =>
          LET u == accounts[idx]
              single == fetch_latest_tweets(u, since_id)
          IN  /\ since_id' = state[u]
              /\ tweets # <<>> => since_id' = tweets[1]
              /\ Range(tweets') \cap Range(cycleFetched[u]) = {}
              /\ queue' = reversed(tweets')
              /\ state'[u] = IF cycleFetched'[u] # <<>>
                             THEN Max(Range(cycleFetched'[u]))
                             ELSE since_id
              /\ tweets = single => (tweets' = <<>> /\ state' = state)]_vars

\* The later entry found nothing new after the earlier one sent two items.
C18_Witness ==
    /\ variant = "A"
    /\ accounts = <<"x", "x">>
    /\ idx = 2
    /\ pcA = "next"
    /\ tweets = <<>>
    /\ Len(cycleFetched["x"]) = 2
    /\ state["x"] = cycleFetched["x"][1]

\* The later entry found a post made after the earlier entry's fetch.
C18_WitnessNew ==
    /\ variant = "A"
    /\ accounts = <<"x", "x">>
    /\ idx = 2
    /\ pcA = "notify"
    /\ Len(tweets) = 1
    /\ Len(cycleFetched["x"]) = 2

\* C19: in variant A the keys of the in-memory snapshot are the configured
\* accounts at every moment; a tracker that has just loaded holds None for an
\* account the file has no entry for; and every complete file the program
\* writes has the configured accounts as its keys, whatever the file it loaded
\* held.
C19_SnapshotKeys ==
    /\ [](variant = "A" =>
            /\ DOMAIN state = Range(accounts)
            /\ (pcA = "loop" /\ idx = 1 /\ state_file.status = "ok") =>
                  \A a \in Range(accounts) :
                      /\ a \notin DOMAIN state_file.data => state[a] = None
                      /\ a \in DOMAIN state_file.data =>
                            state[a] = IF state_file.data[a] = JsonNull
                                       THEN None
                                       ELSE state_file.data[a])
    /\ [][(state_file' # state_file /\ state_file'.status = "ok") =>
              DOMAIN state_file'.data = Range(accounts)]_vars

\* The file held an entry for y, which is not configured; the file written
\* after the load holds x only.
C19_Witness ==
    /\ variant = "A"
    /\ accounts = <<"x", "x">>
    /\ delivered["y"] # {}
    /\ pcA = "sleep"
    /\ state_file.status = "ok"
    /\ DOMAIN state_file.data = {"x"}

\* The file holds no entry for y, which is configured: y is loaded as None.
C19_WitnessMissing ==
    /\ variant = "A"
    /\ accounts = <<"x", "y">>
    /\ pcA = "loop"
    /\ idx = 1
    /\ state_file.status = "ok"
    /\ DOMAIN state_file.data = {"x"}
    /\ state["x"] = 1
    /\ state["y"] = None

NoRepeat(s) == \A i, j \in 1..Len(s) : s[i] = s[j] => i = j

\* C16 (as claimed): when a fetched page carries an id more than once, no id
\* is passed to the notifier twice within one cycle of one account.
C16_InPageDedup == NoRepeat(calls)

\* C16's part that holds: in variant B the page kept by extract_tweets and the
\* sends made from it carry no id twice.
C16_VariantB == variant = "B" => (NoRepeat(tweets) /\ NoRepeat(calls))

====
